---- MODULE Spec2Model ----
(***************************************************************************)
(* The lifecycle of one uploaded job of the CSV analysis service: the      *)
(* upload controller, the Bull queue with its event handlers, the worker's *)
(* processCSVJob, the agent pipeline, the rows the job writes to the       *)
(* store and the removal of the upload.  Jobs meet only in the worker      *)
(* pool, so one job is followed.  The row functions of the CSV processor   *)
(* and the result reader are pure: each has a specification of its own     *)
(* that draws its input and applies it.                                    *)
(***************************************************************************)
EXTENDS Integers, Sequences, FiniteSets, TLC

\* ------------------------------------------------------------------ bounds
MaxInflight == 2        \* event-handler store writes in flight at once
MaxRows == 1            \* rows of the upload that survive validation
LlmItems == 2           \* entries in a well-formed answer of the model
MaxData == 2            \* records handed to the analyzer at once

\* ------------------------------------------------------- program constants
attempts == 3           \* addAnalysisJob: attempts of one queue job
OutlierLimit == 1000000 \* validateAndCleanRow: largest impressions / clicks

Null == "null"
NoProgress == -1        \* a null progress argument
NoMessage == 0          \* a null error message

\* err.message of the error that rejected attempt k: the messages of
\* different attempts are taken to differ.
ErrorOf(k) == k

\* Outcomes of one chain.invoke call that returns, and the call that never
\* returns.
GenOutcomes == {"ok", "throw", "unparseable", "nonarray"}
Hang == "hang"

\* How the generation capability answers the calls made for the job:
\* whether langchainConfig.initialize succeeds, and the outcome of the
\* insight call and of the task call (Null for a call that is never made).
GenInputs ==
  {[init |-> FALSE, insight |-> Null, task |-> Null],
   [init |-> TRUE, insight |-> Hang, task |-> Null]}
  \cup [init : {TRUE}, insight : GenOutcomes \ {"nonarray"},
        task : GenOutcomes \cup {Hang}]

VARIABLES
  job,                \* the analysis_jobs row of the job
  upc,                \* position of uploadFile
  qstate,             \* state of the job in the Bull queue
  attemptsMade,       \* Bull's job.attemptsMade
  pc,                 \* position of the running processCSVJob
  inflight,           \* store writes issued by event handlers, not yet run
  processedData,      \* processCSVJob local: validRows of processCSV
  agentOutput,        \* processCSVJob local: result of runAgentPipeline
  analysis_results,   \* analysis_results rows of the job
  optimization_tasks, \* optimization_tasks rows of the job
  historical_data,    \* number of historical_data rows of the job
  processed_data,     \* number of processed_data rows of the job
  validRows,          \* input: rows of the uploaded file that pass validation
  gen,                \* input: how the generation capability answers
  ioFailed,           \* history: a store write or the CSV read failed
  dpc,                \* position of deleteUpload
  delAt,              \* history: state of the queue job when its record
                      \* was deleted
  executing,          \* processCSVJob calls for the job not yet settled
  row,                \* input: one parsed line of the CSV file
  metrics,            \* what validateAndCleanRow returned for row
  response,           \* what getAnalysis answered
  data,               \* input: the records handed to the analyzer
  summary             \* what the analyzer's calculateMetrics returned

vars == <<job, upc, qstate, attemptsMade, pc, inflight, processedData,
          agentOutput, analysis_results, optimization_tasks,
          historical_data, processed_data, validRows, gen, ioFailed,
          dpc, delAt, executing, row, metrics, response, data, summary>>

storeVars == <<analysis_results, optimization_tasks, historical_data,
               processed_data>>
localVars == <<processedData, agentOutput>>
inputVars == <<validRows, gen>>
delVars == <<dpc, delAt>>
pureVars == <<row, metrics, response, data, summary>>

\* ------------------------------------------------------------ store rows
NoJob == [exists |-> FALSE, status |-> "none", progress |-> 0,
          error_message |-> NoMessage]

\* INSERT INTO analysis_jobs (...) VALUES (..., 'pending').
createJobRecord == [exists |-> TRUE, status |-> "pending", progress |-> 0,
                    error_message |-> NoMessage]

\* A status write that inserts the record when no row matches.
updateJobStatus_upserts(r, status, progress, errorMessage) ==
  [exists |-> TRUE,
   status |-> status,
   progress |-> IF progress # NoProgress THEN progress ELSE r.progress,
   error_message |-> IF errorMessage # NoMessage THEN errorMessage
                     ELSE r.error_message]

\* UPDATE analysis_jobs SET status, [progress], [error_message] WHERE job_id.
updateJobStatus(r, status, progress, errorMessage) ==
  IF ~r.exists THEN r
  ELSE [r EXCEPT !.status = status,
                 !.progress = IF progress # NoProgress THEN progress ELSE @,
                 !.error_message =
                    IF errorMessage # NoMessage THEN errorMessage ELSE @]

\* UPDATE analysis_jobs SET progress WHERE job_id.
updateJobProgress(r, progress) ==
  IF ~r.exists THEN r ELSE [r EXCEPT !.progress = progress]

\* ------------------------------------------------------- event handlers
\* The store write each queue event handler issues.
CompletedWrite == [kind |-> "status", status |-> "completed",
                   progress |-> 100, error_message |-> NoMessage]

FailedWrite(msg) == [kind |-> "status", status |-> "failed",
                     progress |-> 0, error_message |-> msg]

ProgressWrite(n) == [kind |-> "progress", status |-> Null,
                     progress |-> n, error_message |-> NoMessage]

ApplyQuery(r, w) ==
  IF w.kind = "status"
  THEN updateJobStatus(r, w.status, w.progress, w.error_message)
  ELSE updateJobProgress(r, w.progress)

\* ------------------------------------------------------- agent pipeline
\* A stage result: `present` is false for a value that is undefined.
NoStage == [present |-> FALSE, kind |-> Null, n |-> 0, aiGenerated |-> FALSE,
            threw |-> FALSE]

\* InsightGeneratorAgent.execute whose outer catch forgets the flag.
InsightExecute_flagKept(o) ==
  CASE o = "throw" ->
         [present |-> TRUE, kind |-> "failed", n |-> 1,
          aiGenerated |-> TRUE, threw |-> FALSE]
    [] o = "unparseable" ->
         [present |-> TRUE, kind |-> "wrapped", n |-> 1,
          aiGenerated |-> TRUE, threw |-> FALSE]
    [] OTHER ->
         [present |-> TRUE, kind |-> "llm", n |-> LlmItems,
          aiGenerated |-> TRUE, threw |-> FALSE]

\* InsightGeneratorAgent.execute, by the outcome o of chain.invoke.
InsightExecute(o) ==
  CASE o = "throw" ->
         [present |-> TRUE, kind |-> "failed", n |-> 1,
          aiGenerated |-> FALSE, threw |-> FALSE]
    [] o = "unparseable" ->
         [present |-> TRUE, kind |-> "wrapped", n |-> 1,
          aiGenerated |-> TRUE, threw |-> FALSE]
    [] OTHER ->
         [present |-> TRUE, kind |-> "llm", n |-> LlmItems,
          aiGenerated |-> TRUE, threw |-> FALSE]

\* TaskCreatorAgent.execute, by the outcome o of chain.invoke.
TaskExecute(o) ==
  CASE o = "throw" ->
         [present |-> TRUE, kind |-> "failed", n |-> 1,
          aiGenerated |-> FALSE, threw |-> FALSE]
    [] o = "unparseable" ->
         [present |-> TRUE, kind |-> "wrapped", n |-> 1,
          aiGenerated |-> TRUE, threw |-> FALSE]
    [] o = "nonarray" ->
         [present |-> TRUE, kind |-> "placeholder", n |-> 1,
          aiGenerated |-> TRUE, threw |-> FALSE]
    [] OTHER ->
         [present |-> TRUE, kind |-> "llm", n |-> LlmItems,
          aiGenerated |-> TRUE, threw |-> FALSE]

\* The stages runAgentPipeline awaits one after the other, each with the
\* value it is called with: csvData, then the result of the stage before.
PipelineStages ==
  <<[agent |-> "DataAnalyzerAgent", input |-> "csvData"],
    [agent |-> "InsightGeneratorAgent", input |-> "DataAnalyzerAgent"],
    [agent |-> "TaskCreatorAgent", input |-> "InsightGeneratorAgent"]>>

\* A pipeline flag that is true when either stage used the model.
pipelineAiGenerated_either(insightResult, taskResult) ==
  insightResult.aiGenerated \/ taskResult.aiGenerated

\* const aiGenerated = (insightResult.aiGenerated !== false) &&
\* (taskResult.aiGenerated !== false).
pipelineAiGenerated(insightResult, taskResult) ==
  insightResult.aiGenerated /\ taskResult.aiGenerated

\* runAgentPipeline with a catch that rethrows, as the other catch blocks of
\* the service do.
runAgentPipeline_rethrows(initOk, o1, o2) ==
  LET insightResult == InsightExecute(o1)
      taskResult == TaskExecute(o2)
  IN IF ~initOk \/ insightResult.threw \/ taskResult.threw
     THEN [threw |-> TRUE, error |-> TRUE, analysis |-> FALSE,
           insights |-> NoStage, tasks |-> NoStage, aiGenerated |-> FALSE,
           stages |-> <<>>]
     ELSE [threw |-> FALSE, error |-> FALSE, analysis |-> TRUE,
           insights |-> insightResult, tasks |-> taskResult,
           aiGenerated |-> pipelineAiGenerated(insightResult, taskResult),
           stages |-> PipelineStages]

\* runAgentPipeline: initOk is whether langchainConfig.initialize and the
\* agent constructors returned; o1, o2 are the outcomes of the two calls.
\* The catch turns every error into {error, aiGenerated: false}.
runAgentPipeline(initOk, o1, o2) ==
  LET insightResult == InsightExecute(o1)
      taskResult == TaskExecute(o2)
  IN IF ~initOk \/ insightResult.threw \/ taskResult.threw
     THEN [threw |-> FALSE, error |-> TRUE, analysis |-> FALSE,
           insights |-> NoStage, tasks |-> NoStage, aiGenerated |-> FALSE,
           stages |-> <<>>]
     ELSE [threw |-> FALSE, error |-> FALSE, analysis |-> TRUE,
           insights |-> insightResult, tasks |-> taskResult,
           aiGenerated |-> pipelineAiGenerated(insightResult, taskResult),
           stages |-> PipelineStages]

NoOutput == [threw |-> FALSE, error |-> FALSE, analysis |-> FALSE,
             insights |-> NoStage, tasks |-> NoStage, aiGenerated |-> FALSE,
             stages |-> <<>>]

\* ------------------------------------------------------------- CSV rows
\* The text of a numeric cell of a parsed line ("" for an empty cell or a
\* missing column, "abc" for text that is not a number), and of its keyword
\* cell.
RawNumbers == {"", "abc", "-1", "0", "1", "2", "1000000", "1000001"}
RawCosts == {"", "abc", "-1", "0", "3"}
RawSales == {"", "0", "6"}
RawKeywords == {"", "kw"}

Rows == [keyword : RawKeywords, impressions : RawNumbers,
         clicks : RawNumbers, cost : RawCosts, sales : RawSales]

NoRow == [keyword |-> "", impressions |-> "", clicks |-> "", cost |-> "",
          sales |-> ""]

parseFloat(cleaned) ==
  CASE cleaned = "-1" -> -1
    [] cleaned = "0" -> 0
    [] cleaned = "1" -> 1
    [] cleaned = "2" -> 2
    [] cleaned = "3" -> 3
    [] cleaned = "6" -> 6
    [] cleaned = "1000000" -> OutlierLimit
    [] cleaned = "1000001" -> OutlierLimit + 1
    [] OTHER -> 0

\* cleanValue: null for an empty value, the number for a numeric text, the
\* text itself otherwise (isNumber FALSE).
NullValue == [isNull |-> TRUE, isNumber |-> FALSE, v |-> 0]

cleanValue(value) ==
  IF value = "" THEN NullValue
  ELSE IF value \in {"kw", "abc"}
  THEN [isNull |-> FALSE, isNumber |-> FALSE, v |-> 0]
  ELSE [isNull |-> FALSE, isNumber |-> TRUE, v |-> parseFloat(value)]

\* hasRequiredFields, after the numeric fields were defaulted.
hasRequiredFields(cleanedRow) ==
  \A field \in {"keyword", "impressions", "clicks", "cost"} :
     ~cleanedRow[field].isNull

\* JavaScript on cleaned values: a non-empty text is truthy, a number is
\* truthy unless it is 0; a comparison with the text on one side (it
\* converts to NaN) or on both sides (equal texts) is false.
Truthy(c) == IF c.isNumber THEN c.v # 0 ELSE ~c.isNull
Less(a, b) == a.isNumber /\ b.isNumber /\ a.v < b.v

\* A derived metric: absent, the quotient num / den, or NaN when an operand
\* is text.
Absent == [present |-> FALSE, num |-> 0, den |-> 1]
Quotient(a, b) == [present |-> TRUE, num |-> a, den |-> b]
NaN == [present |-> TRUE, num |-> 0, den |-> 0]

Ratio(a, b, scale) ==
  IF a.isNumber /\ b.isNumber THEN Quotient(a.v * scale, b.v) ELSE NaN

\* A row as validateAndCleanRow returns it: `text` holds the numeric fields
\* whose value is text.
NoMetrics == [returned |-> FALSE, valid |-> FALSE, text |-> {},
              impressions |-> 0, clicks |-> 0, cost |-> 0, sales |-> 0,
              calculated_ctr |-> Absent, calculated_cpc |-> Absent,
              calculated_roas |-> Absent, calculated_acos |-> Absent]

\* validateAndCleanRow returned null.
Rejected == [NoMetrics EXCEPT !.returned = TRUE]

\* calculateMetrics: a metric is computed when both operands are truthy.
calculateMetrics(m) ==
  [returned |-> TRUE, valid |-> TRUE,
   text |-> {f \in {"impressions", "clicks", "cost", "sales"} :
               ~m[f].isNumber},
   impressions |-> m.impressions.v, clicks |-> m.clicks.v,
   cost |-> m.cost.v, sales |-> m.sales.v,
   calculated_ctr |-> IF Truthy(m.impressions) /\ Truthy(m.clicks)
                      THEN Ratio(m.clicks, m.impressions, 100) ELSE Absent,
   calculated_cpc |-> IF Truthy(m.cost) /\ Truthy(m.clicks)
                      THEN Ratio(m.cost, m.clicks, 1) ELSE Absent,
   calculated_roas |-> IF Truthy(m.sales) /\ Truthy(m.cost)
                       THEN Ratio(m.sales, m.cost, 1) ELSE Absent,
   calculated_acos |-> IF Truthy(m.cost) /\ Truthy(m.sales)
                       THEN Ratio(m.cost, m.sales, 100) ELSE Absent]

\* validateAndCleanRow: clean the cells, default the numeric fields to 0,
\* reject the row on a missing keyword, a negative number, more clicks than
\* impressions or an outlier, and add the derived metrics otherwise.
validateAndCleanRow(r) ==
  LET Default(c) == IF c.isNull
                    THEN [isNull |-> FALSE, isNumber |-> TRUE, v |-> 0]
                    ELSE c
      Limit == [isNull |-> FALSE, isNumber |-> TRUE, v |-> OutlierLimit]
      Nought == [isNull |-> FALSE, isNumber |-> TRUE, v |-> 0]
      cleanedRow == [keyword |-> cleanValue(r.keyword),
                     impressions |-> Default(cleanValue(r.impressions)),
                     clicks |-> Default(cleanValue(r.clicks)),
                     cost |-> Default(cleanValue(r.cost)),
                     sales |-> Default(cleanValue(r.sales))]
  IN IF ~hasRequiredFields(cleanedRow) THEN Rejected
     ELSE IF \E f \in {"impressions", "clicks", "cost", "sales"} :
                Less(cleanedRow[f], Nought)
          THEN Rejected
     ELSE IF Less(cleanedRow.impressions, cleanedRow.clicks) THEN Rejected
     ELSE IF Less(Limit, cleanedRow.impressions)
             \/ Less(Limit, cleanedRow.clicks)
          THEN Rejected
     ELSE calculateMetrics(cleanedRow)

\* ------------------------------------------------------------ aggregate
\* The rows whose records are summed: small numbers and text.
SummedRows ==
  {r \in Rows : /\ r.keyword = "kw"
                /\ r.impressions \in {"abc", "1", "2"}
                /\ r.clicks \in {"0", "1", "2"}
                /\ r.cost \in {"0", "3"}
                /\ r.sales \in {"0", "6"}}

\* processCSV keeps the rows validateAndCleanRow returns.
Records ==
  {m \in {validateAndCleanRow(r) : r \in SummedRows} : m.valid}

Zero == [num |-> 0, den |-> 1]
Plus(a, b) == [num |-> a.num * b.den + b.num * a.den, den |-> a.den * b.den]

\* `if (row.calculated_x)`: the metric is set, is not NaN and is not 0.
TruthyMetric(q) == q.present /\ q.den # 0 /\ q.num # 0

NoSummary == [returned |-> FALSE, rowCount |-> 0,
              averageCTR |-> Zero, averageCPC |-> Zero,
              averageROAS |-> Zero, averageACOS |-> Zero]

\* The forEach of calculateMetrics for one metric, over the first n rows:
\* the running sum and the count of the rows that added to it.
RECURSIVE Accumulate(_, _, _)
Accumulate(rows, name, n) ==
  IF n = 0 THEN [sum |-> Zero, valid |-> 0]
  ELSE LET acc == Accumulate(rows, name, n - 1)
           q == rows[n][name]
       IN IF TruthyMetric(q)
          THEN [sum |-> Plus(acc.sum, [num |-> q.num, den |-> q.den]),
                valid |-> acc.valid + 1]
          ELSE acc

\* A summary that divides every sum by the number of rows.
generateSummary_overRows(rows) ==
  LET Average(name) ==
        LET acc == Accumulate(rows, name, Len(rows))
        IN IF Len(rows) > 0
           THEN [num |-> acc.sum.num, den |-> acc.sum.den * Len(rows)]
           ELSE acc.sum
  IN [returned |-> TRUE, rowCount |-> Len(rows),
      averageCTR |-> Average("calculated_ctr"),
      averageCPC |-> Average("calculated_cpc"),
      averageROAS |-> Average("calculated_roas"),
      averageACOS |-> Average("calculated_acos")]

\* DataAnalyzerAgent.calculateMetrics (the loop of CSVProcessor's
\* generateSummary is the same): each sum is divided by the count of the rows
\* that added to it, when there is one.
generateSummary(rows) ==
  LET Average(name) ==
        LET acc == Accumulate(rows, name, Len(rows))
        IN IF acc.valid > 0
           THEN [num |-> acc.sum.num, den |-> acc.sum.den * acc.valid]
           ELSE acc.sum
  IN [returned |-> TRUE, rowCount |-> Len(rows),
      averageCTR |-> Average("calculated_ctr"),
      averageCPC |-> Average("calculated_cpc"),
      averageROAS |-> Average("calculated_roas"),
      averageACOS |-> Average("calculated_acos")]

\* ---------------------------------------------------------- getAnalysis
NoResponse == [code |-> 0, fields |-> {}, status |-> Null,
               progress |-> NoProgress, details |-> NoMessage,
               metrics |-> FALSE, optimizationTasks |-> 0]

\* getAnalysisResults: analysis_jobs LEFT JOIN analysis_results LEFT JOIN
\* optimization_tasks; the analysis is read from the first row of the join,
\* taken here from result row i (0 when the job has none), and one task is
\* pushed for every row of the join that has a task.
getAnalysisResults(i) ==
  [analysis |-> IF i = 0 THEN FALSE ELSE analysis_results[i].analysis,
   insights |-> IF i = 0 THEN Null ELSE analysis_results[i].insights,
   tasks |-> IF i = 0 THEN Null ELSE analysis_results[i].tasks,
   optimizationTasks |->
     (IF analysis_results = <<>> THEN 1 ELSE Len(analysis_results))
       * Len(optimization_tasks)]

\* formatAnalysisResults: the keys of the object it builds.
formatAnalysisResults(results) ==
  [fields |-> {"summary", "performance", "trends", "optimizationTasks"},
   metrics |-> results.analysis,
   optimizationTasks |-> results.optimizationTasks]

\* getAnalysis: the status code and the data of the answer.
getAnalysis(i) ==
  IF ~job.exists
  THEN [NoResponse EXCEPT !.code = 404]
  ELSE IF job.status \in {"pending", "processing"}
  THEN [NoResponse EXCEPT !.code = 200,
                          !.fields = {"status", "progress", "message"},
                          !.status = job.status,
                          !.progress = job.progress]
  ELSE IF job.status = "failed"
  THEN [NoResponse EXCEPT !.code = 400,
                          !.fields = {"error", "details"},
                          !.details = job.error_message]
  ELSE LET formattedResults == formatAnalysisResults(getAnalysisResults(i))
       IN [NoResponse EXCEPT
             !.code = 200,
             !.fields = {"status", "completedAt"}
                          \cup formattedResults.fields,
             !.status = job.status,
             !.metrics = formattedResults.metrics,
             !.optimizationTasks = formattedResults.optimizationTasks]

\* ------------------------------------------------------------------ Init
Init ==
  /\ job = NoJob
  /\ upc = "new"
  /\ qstate = "none"
  /\ attemptsMade = 0
  /\ pc = "idle"
  /\ inflight = {}
  /\ processedData = 0
  /\ agentOutput = NoOutput
  /\ analysis_results = <<>>
  /\ optimization_tasks = <<>>
  /\ historical_data = 0
  /\ processed_data = 0
  /\ validRows \in 0..MaxRows
  /\ gen \in GenInputs
  /\ ioFailed = FALSE
  /\ dpc = "none"
  /\ delAt = Null
  /\ executing = 0
  /\ row = NoRow
  /\ metrics = NoMetrics
  /\ response = NoResponse
  /\ data = <<>>
  /\ summary = NoSummary

\* ------------------------------------------------------------ uploadFile
\* uploadFile up to the end of createJobRecord.
CreateJobRecord ==
  /\ upc = "new"
  /\ \E ok \in BOOLEAN :
       IF ok
       THEN /\ job' = createJobRecord
            /\ upc' = "created"
       ELSE /\ upc' = "error"
            /\ UNCHANGED job
  /\ UNCHANGED <<qstate, attemptsMade, pc, inflight, localVars, storeVars,
                 inputVars, delVars, pureVars, executing, ioFailed>>

\* uploadFile from addAnalysisJob to the response.
AddAnalysisJob ==
  /\ upc = "created"
  /\ \E ok \in BOOLEAN :
       IF ok
       THEN /\ qstate' = "waiting"
            /\ upc' = "done"
       ELSE /\ upc' = "error"
            /\ UNCHANGED qstate
  /\ UNCHANGED <<job, attemptsMade, pc, inflight, localVars, storeVars,
                 inputVars, delVars, pureVars, executing, ioFailed>>

\* ----------------------------------------------------------------- Bull
\* A handler's store write is issued: it runs later, in any order.
Emit(w) ==
  /\ Cardinality(inflight \cup {w}) <= MaxInflight
  /\ inflight' = inflight \cup {w}

\* A queue that hands the job to a worker while another one holds it.
Dequeue_whileActive ==
  /\ qstate \in {"waiting", "delayed", "active"}
  /\ executing < attempts
  /\ qstate' = "active"
  /\ pc' = "status"
  /\ executing' = executing + 1
  /\ UNCHANGED <<job, upc, attemptsMade, inflight, localVars, storeVars,
                 inputVars, delVars, pureVars, ioFailed>>

\* The worker takes the job: the first attempt, or a retry after backoff.
\* Bull locks the job for the worker until the attempt settles.
Dequeue ==
  /\ qstate \in {"waiting", "delayed"}
  /\ qstate' = "active"
  /\ pc' = "status"
  /\ executing' = executing + 1
  /\ UNCHANGED <<job, upc, attemptsMade, inflight, localVars, storeVars,
                 inputVars, delVars, pureVars, ioFailed>>

\* A queue that grants one retry more than the attempts option.
MoveToFailed_retriesAgain ==
  /\ attemptsMade' = attemptsMade + 1
  /\ qstate' = IF attemptsMade + 1 <= attempts THEN "delayed" ELSE "failed"
  /\ pc' = "idle"
  /\ processedData' = 0
  /\ agentOutput' = NoOutput
  /\ executing' = executing - 1
  /\ Emit(FailedWrite(ErrorOf(attemptsMade + 1)))
  /\ UNCHANGED <<upc, inputVars, delVars, pureVars>>

\* processCSVJob rejects: Bull counts the attempt, schedules the retry while
\* attempts remain, and emits `failed` in either case.
MoveToFailed ==
  /\ attemptsMade' = attemptsMade + 1
  /\ qstate' = IF attemptsMade + 1 < attempts THEN "delayed" ELSE "failed"
  /\ pc' = "idle"
  /\ processedData' = 0
  /\ agentOutput' = NoOutput
  /\ executing' = executing - 1
  /\ Emit(FailedWrite(ErrorOf(attemptsMade + 1)))
  /\ UNCHANGED <<upc, inputVars, delVars, pureVars>>

\* processCSVJob resolves: Bull finishes the job and emits `completed`.
MoveToCompleted ==
  /\ qstate' = "completed"
  /\ pc' = "idle"
  /\ processedData' = 0
  /\ agentOutput' = NoOutput
  /\ executing' = executing - 1
  /\ Emit(CompletedWrite)
  /\ UNCHANGED <<upc, attemptsMade, inputVars, delVars, pureVars>>

\* A handler's write reaches the store.
ApplyWrite ==
  /\ \E w \in inflight :
       /\ job' = ApplyQuery(job, w)
       /\ inflight' = inflight \ {w}
  /\ UNCHANGED <<upc, qstate, attemptsMade, pc, localVars, storeVars,
                 inputVars, delVars, pureVars, executing, ioFailed>>

\* A handler's write fails in the store: the catch of updateJobStatus /
\* updateJobProgress logs the error and drops it.
DropWrite ==
  /\ \E w \in inflight : inflight' = inflight \ {w}
  /\ ioFailed' = TRUE
  /\ UNCHANGED <<job, upc, qstate, attemptsMade, pc, localVars, storeVars,
                 inputVars, delVars, pureVars, executing>>

\* --------------------------------------------------------- processCSVJob
\* An awaited updateJobStatus / updateJobProgress that leaves the record as
\* r: the catch inside logs a store error and returns, so the caller carries
\* on either way.
AwaitedWrite(r) ==
  \E ok \in BOOLEAN :
     /\ job' = IF ok THEN r ELSE job
     /\ ioFailed' = (ioFailed \/ ~ok)

\* A store or file operation threw after the awaited write of r: the catch
\* of processCSVJob rethrows and the attempt is rejected.
Throw(r) ==
  /\ MoveToFailed
  /\ \E ok \in BOOLEAN : job' = IF ok THEN r ELSE job
  /\ ioFailed' = TRUE

\* await updateJobStatus(jobId, "processing", 0); job.progress(10).
StepStatus ==
  /\ pc = "status"
  /\ AwaitedWrite(updateJobStatus(job, "processing", 0, NoMessage))
  /\ Emit(ProgressWrite(10))
  /\ pc' = "p10"
  /\ UNCHANGED <<upc, qstate, attemptsMade, localVars, storeVars,
                 inputVars, delVars, pureVars, executing>>

\* await updateJobProgress(jobId, 10); await csvProcessor.processCSV;
\* job.progress(50). The read fails once deleteUpload has unlinked the file.
StepCSV ==
  /\ pc = "p10"
  /\ \/ /\ Throw(updateJobProgress(job, 10))
        /\ UNCHANGED storeVars
     \/ /\ dpc = "none"
        /\ AwaitedWrite(updateJobProgress(job, 10))
        /\ processedData' = validRows
        /\ Emit(ProgressWrite(50))
        /\ pc' = "p50"
        /\ UNCHANGED <<upc, qstate, attemptsMade, agentOutput, storeVars,
                       inputVars, delVars, pureVars, executing>>

\* await updateJobProgress(jobId, 50); await runAgentPipeline; then
\* job.progress(80), or the catch of processCSVJob when the pipeline threw.
\* A chain.invoke that never returns leaves the attempt waiting for ever.
StepPipeline ==
  /\ pc = "p50"
  /\ AwaitedWrite(updateJobProgress(job, 50))
  /\ IF Hang \in {gen.insight, gen.task}
     THEN /\ pc' = "hung"
          /\ UNCHANGED <<upc, qstate, attemptsMade, inflight, localVars,
                         inputVars, delVars, pureVars, executing>>
     ELSE LET out == runAgentPipeline(gen.init, gen.insight, gen.task)
          IN IF out.threw
             THEN MoveToFailed
             ELSE /\ agentOutput' = out
                  /\ Emit(ProgressWrite(80))
                  /\ pc' = "p80"
                  /\ UNCHANGED <<upc, qstate, attemptsMade, processedData,
                                 inputVars, delVars, pureVars, executing>>
  /\ UNCHANGED storeVars

\* The analysis_results row storeAnalysisResults inserts: the aggregate, and
\* the aiGenerated flag inside the insights and the tasks JSON ("T", "F"),
\* Null for a null column.
Flag(stage) ==
  IF ~stage.present THEN Null ELSE IF stage.aiGenerated THEN "T" ELSE "F"

ResultRowOf(att, rows, out) ==
  [att |-> att,
   processed_rows |-> rows,
   analysis |-> out.analysis,
   insights |-> Flag(out.insights),
   tasks |-> Flag(out.tasks)]

ResultRow == ResultRowOf(attemptsMade + 1, processedData, agentOutput)

\* storeAnalysisResults that stores nothing for a pipeline that reported an
\* error.
StepResults_skipsInsert ==
  /\ pc = "p80"
  /\ \/ /\ Throw(updateJobProgress(job, 80))
        /\ UNCHANGED storeVars
     \/ /\ job.exists
        /\ AwaitedWrite(updateJobProgress(job, 80))
        /\ analysis_results' = IF agentOutput.error THEN analysis_results
                               ELSE Append(analysis_results, ResultRow)
        /\ IF agentOutput.tasks.present
           THEN /\ pc' = "tasks"
                /\ UNCHANGED inflight
           ELSE /\ Emit(ProgressWrite(90))
                /\ pc' = "p90"
        /\ UNCHANGED <<upc, qstate, attemptsMade, localVars,
                       optimization_tasks, historical_data, processed_data,
                       inputVars, delVars, pureVars, executing>>

\* await updateJobProgress(jobId, 80); storeAnalysisResults up to the INSERT
\* INTO analysis_results; without tasks, job.progress(90).
StepResults ==
  /\ pc = "p80"
  /\ \/ /\ Throw(updateJobProgress(job, 80))
        /\ UNCHANGED storeVars
     \/ /\ job.exists
        /\ AwaitedWrite(updateJobProgress(job, 80))
        /\ analysis_results' = Append(analysis_results, ResultRow)
        /\ IF agentOutput.tasks.present
           THEN /\ pc' = "tasks"
                /\ UNCHANGED inflight
           ELSE /\ Emit(ProgressWrite(90))
                /\ pc' = "p90"
        /\ UNCHANGED <<upc, qstate, attemptsMade, localVars,
                       optimization_tasks, historical_data, processed_data,
                       inputVars, delVars, pureVars, executing>>

\* The optimization_tasks rows for the first m tasks of this attempt.
TaskRowsOf(att, m) == [i \in 1..m |-> [att |-> att, i |-> i]]

TaskRows(m) == TaskRowsOf(attemptsMade + 1, m)

\* updateOptimizationTasks: SELECT, DELETE, then one INSERT per task; a
\* store error leaves what was written before it. Then job.progress(90).
StepTasks ==
  /\ pc = "tasks"
  /\ \/ /\ Throw(job)
        /\ \/ UNCHANGED optimization_tasks
           \/ /\ job.exists
              /\ \E m \in 0..(agentOutput.tasks.n - 1) :
                   optimization_tasks' = TaskRows(m)
        /\ UNCHANGED <<analysis_results, historical_data, processed_data>>
     \/ /\ job.exists
        /\ optimization_tasks' = TaskRows(agentOutput.tasks.n)
        /\ Emit(ProgressWrite(90))
        /\ pc' = "p90"
        /\ UNCHANGED <<job, upc, qstate, attemptsMade, localVars,
                       analysis_results, historical_data, processed_data,
                       inputVars, delVars, pureVars, executing, ioFailed>>

\* await updateJobProgress(jobId, 90); storeHistoricalData;
\* job.progress(100).
StepHist ==
  /\ pc = "p90"
  /\ \/ /\ Throw(updateJobProgress(job, 90))
        /\ UNCHANGED storeVars
     \/ /\ job.exists
        /\ AwaitedWrite(updateJobProgress(job, 90))
        /\ historical_data' = historical_data + 1
        /\ Emit(ProgressWrite(100))
        /\ pc' = "p100"
        /\ UNCHANGED <<upc, qstate, attemptsMade, localVars,
                       analysis_results, optimization_tasks, processed_data,
                       inputVars, delVars, pureVars, executing>>

\* await updateJobProgress(jobId, 100); return: the attempt succeeded.
StepReturn ==
  /\ pc = "p100"
  /\ AwaitedWrite(updateJobProgress(job, 100))
  /\ MoveToCompleted
  /\ UNCHANGED storeVars

\* ---------------------------------------------------------- deleteUpload
\* deleteUpload once uploadFile has answered: DELETE FROM analysis_jobs ...
\* RETURNING file_path, then fs.unlinkSync of the file. The rows of the other
\* tables are read only through the record.
DeleteUpload ==
  /\ dpc = "none"
  /\ upc \in {"done", "error"}
  /\ job.exists
  /\ job' = NoJob
  /\ delAt' = qstate
  /\ dpc' = "deleted"
  /\ UNCHANGED <<upc, qstate, attemptsMade, pc, inflight, localVars,
                 storeVars, inputVars, pureVars, executing, ioFailed>>

\* removeJob: getJobs(waiting, active, delayed, paused) and the search for
\* the queue job of the upload; without one removeJob returns false and
\* deleteUpload answers.
RemoveJobScan ==
  /\ dpc = "deleted"
  /\ dpc' = IF qstate \in {"waiting", "active", "delayed"}
            THEN "found" ELSE "returned"
  /\ UNCHANGED <<job, upc, qstate, attemptsMade, pc, inflight, localVars,
                 storeVars, inputVars, delAt, pureVars, executing, ioFailed>>

\* removeJob: await job.remove() on the queue job that was found, then
\* deleteUpload answers. Bull refuses to remove a job a worker holds the lock
\* of: job.remove() throws, the catch of removeJob returns false.
RemoveJobRemove ==
  /\ dpc = "found"
  /\ qstate' = IF qstate = "active" THEN qstate ELSE "removed"
  /\ dpc' = "returned"
  /\ UNCHANGED <<job, upc, attemptsMade, pc, inflight, localVars,
                 storeVars, inputVars, delAt, pureVars, executing, ioFailed>>

\* ------------------------------------------------------------------ Next
Next ==
  \/ CreateJobRecord
  \/ AddAnalysisJob
  \/ Dequeue
  \/ StepStatus
  \/ StepCSV
  \/ StepPipeline
  \/ StepResults
  \/ StepTasks
  \/ StepHist
  \/ StepReturn
  \/ ApplyWrite
  \/ DropWrite
  \/ DeleteUpload
  \/ RemoveJobScan
  \/ RemoveJobRemove

Spec == Init /\ [][Next]_vars

\* A specification with the fairness the event loop gives: a step that can
\* be taken (a store write in flight, a runnable worker step) is taken.
FairSpec == Spec /\ WF_vars(Next)

\* ------------------------------------------------- the row functions
\* No job: every variable of the job's lifecycle at its initial value.
NoLifecycle ==
  /\ upc = "new"
  /\ qstate = "none"
  /\ attemptsMade = 0
  /\ pc = "idle"
  /\ inflight = {}
  /\ processedData = 0
  /\ agentOutput = NoOutput
  /\ historical_data = 0
  /\ processed_data = 0
  /\ ioFailed = FALSE
  /\ dpc = "none"
  /\ delAt = Null
  /\ executing = 0

RowInit ==
  /\ NoLifecycle
  /\ job = NoJob
  /\ analysis_results = <<>>
  /\ optimization_tasks = <<>>
  /\ validRows = 0
  /\ gen = [init |-> FALSE, insight |-> Null, task |-> Null]
  /\ row \in Rows
  /\ metrics = NoMetrics
  /\ response = NoResponse
  /\ data = <<>>
  /\ summary = NoSummary

\* processCSV hands one parsed line to validateAndCleanRow.
ValidateRow ==
  /\ ~metrics.returned
  /\ metrics' = validateAndCleanRow(row)
  /\ UNCHANGED <<job, upc, qstate, attemptsMade, pc, inflight, localVars,
                 storeVars, inputVars, ioFailed, delVars, executing, row,
                 response, data, summary>>

RowSpec == RowInit /\ [][ValidateRow]_vars

\* ------------------------------------------------------- the aggregate
AggInit ==
  /\ NoLifecycle
  /\ job = NoJob
  /\ analysis_results = <<>>
  /\ optimization_tasks = <<>>
  /\ validRows = 0
  /\ gen = [init |-> FALSE, insight |-> Null, task |-> Null]
  /\ row = NoRow
  /\ metrics = NoMetrics
  /\ response = NoResponse
  /\ data \in UNION {[1..n -> Records] : n \in 0..MaxData}
  /\ summary = NoSummary

\* DataAnalyzerAgent.execute computes the metrics of the records.
Summarize ==
  /\ ~summary.returned
  /\ summary' = generateSummary(data)
  /\ UNCHANGED <<job, upc, qstate, attemptsMade, pc, inflight, localVars,
                 storeVars, inputVars, ioFailed, delVars, executing, row,
                 metrics, response, data>>

AggSpec == AggInit /\ [][Summarize]_vars

\* ------------------------------------------------------ the result reader
\* The records a job can have in analysis_jobs while it exists.
\* A pending record was never marked failed, a processing one has the error
\* of an earlier attempt at most, a failed one has an error, and a completed
\* one has the progress of the completed handler or of a later progress
\* write.
StoredJobs ==
  {NoJob} \cup
  {r \in [exists : {TRUE},
          status : {"pending", "processing", "completed", "failed"},
          progress : {0, 10, 50, 80, 90, 100},
          error_message : 0..attempts] :
     /\ r.status = "pending" => r.error_message = NoMessage
     /\ r.status = "processing" => r.error_message < attempts
     /\ r.status = "failed" => r.error_message # NoMessage
     /\ r.status = "completed" => r.progress # 0}

\* The store as the job's attempts leave it: the record, one result row for
\* each of k attempts that reached storeAnalysisResults, and the task rows of
\* the last attempt that wrote tasks.
ReadInit ==
  /\ NoLifecycle
  /\ job \in StoredJobs
  /\ validRows \in 0..MaxRows
  /\ gen \in {g \in GenInputs : Hang \notin {g.insight, g.task}}
  /\ \E k \in 0..attempts :
       /\ job.exists /\ job.status = "completed" => k >= 1
       /\ job.exists /\ job.progress = 100 => k >= 1
       /\ LET out == runAgentPipeline(gen.init, gen.insight, gen.task)
          IN /\ analysis_results =
                  [a \in 1..k |-> ResultRowOf(a, validRows, out)]
             /\ IF k = 0 \/ ~out.tasks.present
                THEN optimization_tasks = <<>>
                ELSE \E m \in {0, out.tasks.n} :
                        optimization_tasks = TaskRowsOf(k, m)
  /\ row = NoRow
  /\ metrics = NoMetrics
  /\ response = NoResponse
  /\ data = <<>>
  /\ summary = NoSummary

\* One call of getAnalysis: getJobStatus, then getAnalysisResults for a
\* record that is neither pending, processing nor failed. The join has no
\* ORDER BY: any result row of the job can come first.
GetAnalysis ==
  /\ response = NoResponse
  /\ \E i \in (IF analysis_results = <<>> THEN {0}
               ELSE DOMAIN analysis_results) :
       response' = getAnalysis(i)
  /\ UNCHANGED <<job, upc, qstate, attemptsMade, pc, inflight, localVars,
                 storeVars, inputVars, ioFailed, delVars, executing, row,
                 metrics, data, summary>>

ReadSpec == ReadInit /\ [][GetAnalysis]_vars

\* ---------------------------------------------------------------- claims
\* Bull has finished with the job and every handler write has run.
Quiescent == qstate \in {"completed", "failed"} /\ inflight = {}

\* C1: once the stored status is completed or failed, no step changes it.
C1_TerminalAbsorbing ==
  [][(job.exists /\ job'.exists /\ job.status \in {"completed", "failed"})
       => job'.status = job.status]_vars

\* C2: while a further attempt of the job is still to run (the queue job is
\* waiting, active or delayed for a retry), the stored status is not failed.
C2_FailedOnlyAfterAllAttempts ==
  (job.exists /\ qstate \in {"waiting", "active", "delayed"})
    => job.status # "failed"

\* C3: a failed status always comes with an error message, and a job whose
\* three attempts were all rejected ends failed with the message of the
\* third attempt's error.
C3_FailedCarriesLastError ==
  /\ (job.exists /\ job.status = "failed")
       => job.error_message # NoMessage
  /\ (job.exists /\ qstate = "failed" /\ inflight = {})
       => (job.status = "failed"
           /\ job.error_message = ErrorOf(attempts))

\* C4: a job whose first two attempts were rejected and whose third attempt
\* succeeded has status completed once every handler write has run.
C4_ThirdAttemptCompletes ==
  (job.exists /\ qstate = "completed" /\ attemptsMade = 2 /\ inflight = {})
    => job.status = "completed"

\* C5: within one attempt, after its first write, no step lowers the stored
\* progress.
C5_ProgressMonotonic ==
  [][(job.exists /\ job'.exists /\ qstate = "active" /\ qstate' = "active"
      /\ pc # "status")
       => job'.progress >= job.progress]_vars

\* C6: a completed job has progress 100.
C6_CompletedPinnedAt100 ==
  (job.exists /\ job.status = "completed") => job.progress = 100

\* C7: the job has at most one analysis_results row and at most one
\* historical_data row, and its optimization_tasks all come from one attempt.
C7_RetriesOverwrite ==
  /\ Len(analysis_results) <= 1
  /\ historical_data <= 1
  /\ \A i \in DOMAIN optimization_tasks :
       optimization_tasks[i].att = optimization_tasks[1].att

\* C8: a completed job has one processed_data row for each row of its input
\* that survived validation.
C8_RecordsPersisted ==
  (job.exists /\ job.status = "completed") => processed_data = validRows

\* C9: a job that is processing when a generation call hangs still reaches
\* completed or failed.
C9_HungCallDoesNotStall ==
  (job.exists /\ job.status = "processing" /\ pc = "hung")
    ~> (job.status \in {"completed", "failed"})

\* C10: however the generation calls end, an attempt is rejected only when a
\* store write or the file read failed; without such a failure the job
\* finishes on its first attempt with status completed.
C10_GenerationNeverFailsJob ==
  ~ioFailed =>
     /\ attemptsMade = 0
     /\ qstate # "failed"
     /\ (job.exists /\ Quiescent) => job.status = "completed"

C10_Witness ==
  /\ Quiescent /\ ~ioFailed /\ job.status = "completed"
  /\ gen.insight = "throw" /\ gen.task = "unparseable"

\* The attempt holds the result of runAgentPipeline.
AfterPipeline == pc \in {"p80", "tasks", "p90", "p100"}

\* C11: when the insight call throws, the insight stage returns one entry
\* with the failure message and aiGenerated false; when the task call
\* throws, the task stage returns one placeholder task with aiGenerated
\* false; in both cases the aiGenerated of the pipeline is false.
C11_ThrowFallsBack ==
  AfterPipeline =>
    /\ gen.insight = "throw" =>
         /\ agentOutput.insights.kind = "failed"
         /\ agentOutput.insights.n = 1
         /\ ~agentOutput.insights.aiGenerated
         /\ ~agentOutput.aiGenerated
    /\ gen.task = "throw" =>
         /\ agentOutput.tasks.kind = "failed"
         /\ agentOutput.tasks.n = 1
         /\ ~agentOutput.tasks.aiGenerated
         /\ ~agentOutput.aiGenerated

C11_Witness ==
  /\ pc = "p80" /\ gen.insight = "throw" /\ gen.task = "throw"
  /\ agentOutput.insights.kind = "failed" /\ agentOutput.tasks.n = 1
  /\ ~agentOutput.aiGenerated

\* C12: when the answer of a generation call is malformed (it cannot be
\* parsed, or for the task stage it parses to something that is not an
\* array), the stage returns one degraded entry with aiGenerated false.
C12_MalformedFallsBack ==
  AfterPipeline =>
    /\ gen.insight = "unparseable" =>
         /\ agentOutput.insights.n = 1
         /\ ~agentOutput.insights.aiGenerated
    /\ gen.task \in {"unparseable", "nonarray"} =>
         /\ agentOutput.tasks.n = 1
         /\ ~agentOutput.tasks.aiGenerated

\* Some generative stage fell back, or the pipeline reported an error.
Degraded == ~gen.init \/ gen.insight # "ok" \/ gen.task # "ok"

\* C13: a job that completed without any store failure and whose enrichment
\* is degraded has a stored result row carrying an aiGenerated false flag.
C13_DegradedIsFlagged ==
  (job.exists /\ job.status = "completed" /\ Degraded /\ ~ioFailed) =>
     \E i \in DOMAIN analysis_results :
        "F" \in {analysis_results[i].insights, analysis_results[i].tasks}

\* C14: a job whose pipeline setup failed is never rejected by it, and once
\* it completed without any store failure its stored result row holds the
\* aggregate of its records.
C14_SetupFailureKeepsAggregate ==
  /\ (~gen.init /\ ~ioFailed) => (attemptsMade = 0 /\ qstate # "failed")
  /\ (job.exists /\ job.status = "completed" /\ ~gen.init /\ ~ioFailed) =>
        /\ analysis_results # <<>>
        /\ \A i \in DOMAIN analysis_results : analysis_results[i].analysis

\* C15: once the removal of a job that was executing has returned, no worker
\* starts an attempt of the job.
C15_RemovalStopsRetries ==
  [][(dpc = "returned" /\ delAt = "active")
       => ~(qstate # "active" /\ qstate' = "active")]_vars

\* C16: once the removal of a job that was still waiting in the queue has
\* returned, the record is gone and no worker starts executing the job.
C16_QueuedJobNeverRuns ==
  [][(dpc = "returned" /\ delAt = "waiting")
       => (~job.exists /\ ~(qstate # "active" /\ qstate' = "active"))]_vars

\* C17: an unknown job gets not-found; a pending or processing job gets its
\* status and progress and no results; a failed job gets its error; only a
\* completed job gets results, and it gets both the analysis and the
\* enrichment (insights and tasks).
ResultFields == {"summary", "performance", "trends", "insights",
                 "optimizationTasks"}

C17_ResultsOnlyWhenCompleted ==
  response # NoResponse =>
    /\ ~job.exists => response.code = 404 /\ response.fields = {}
    /\ (job.exists /\ job.status \in {"pending", "processing"}) =>
         /\ response.code = 200
         /\ response.fields \cap ResultFields = {}
         /\ response.status = job.status
         /\ response.progress = job.progress
    /\ (job.exists /\ job.status = "failed") =>
         /\ response.code = 400
         /\ response.fields \cap ResultFields = {}
         /\ response.details = job.error_message
    /\ (job.exists /\ job.status = "completed") =>
         /\ response.code = 200
         /\ ResultFields \subseteq response.fields

C19_StoreErrorAborts ==
  [][(qstate = "active" /\ pc' # pc /\ ~ioFailed /\ ioFailed')
       => qstate' \in {"delayed", "failed"}]_vars

\* C20: a row of numbers that survives validation has calculated_ctr exactly
\* when its impressions are positive, and then it equals clicks /
\* impressions * 100.
C20_CtrDefinedForImpressions ==
  (metrics.returned /\ metrics.valid /\ metrics.text = {}) =>
     /\ metrics.calculated_ctr.present <=> metrics.impressions > 0
     /\ metrics.calculated_ctr.present =>
          metrics.calculated_ctr.num * metrics.impressions
            = metrics.clicks * 100 * metrics.calculated_ctr.den

\* C22: a worker starts processCSVJob for the job only while fewer than 3
\* attempts were made: at most 3 starts in all.
C22_AtMostThreeStarts ==
  [][(qstate # "active" /\ qstate' = "active") => attemptsMade < 3]_vars

C22_Witness ==
  qstate = "active" /\ pc = "status" /\ attemptsMade = 2 /\ executing = 1

\* C26: a completed job has no error message.
C26_CompletedHasNoError ==
  (job.exists /\ job.status = "completed") => job.error_message = NoMessage

C29_RemovalIsPermanent ==
  [][dpc # "none" =>
       /\ ~job'.exists
       /\ analysis_results' = analysis_results
       /\ optimization_tasks' = optimization_tasks
       /\ historical_data' = historical_data
       /\ processed_data' = processed_data]_vars

C29_Witness ==
  /\ dpc = "returned" /\ delAt = "active" /\ ~job.exists
  /\ qstate = "delayed" /\ attemptsMade = 1 /\ inflight = {}

\* C30: a job whose stored status is completed has an analysis_results row.
C30_ResultsBeforeCompleted ==
  (job.exists /\ job.status = "completed") => analysis_results # <<>>

C30_Witness ==
  /\ job.exists /\ job.status = "completed" /\ attemptsMade = 1
  /\ Len(analysis_results) = 1 /\ dpc = "none"

\* C23: the aiGenerated of a pipeline that ran is true exactly when both the
\* insight result and the task result have aiGenerated true, and its stages
\* ran in the order analyzer, insight generator, task creator, each called
\* with the result of the stage before it.
C23_FlagIsAndOfStages ==
  (AfterPipeline /\ ~agentOutput.error) =>
     /\ agentOutput.aiGenerated <=>
          (agentOutput.insights.aiGenerated /\ agentOutput.tasks.aiGenerated)
     /\ [i \in 1..Len(agentOutput.stages) |-> agentOutput.stages[i].agent]
          = <<"DataAnalyzerAgent", "InsightGeneratorAgent",
              "TaskCreatorAgent">>
     /\ \A i \in 2..Len(agentOutput.stages) :
          agentOutput.stages[i].input = agentOutput.stages[i - 1].agent

C23_Witness ==
  /\ pc = "p80" /\ ~agentOutput.error
  /\ ~agentOutput.insights.aiGenerated /\ agentOutput.tasks.aiGenerated
  /\ ~agentOutput.aiGenerated /\ Len(agentOutput.stages) = 3

\* C24: a row of numbers that survives validation has impressions and clicks
\* strictly below 1,000,000.
C24_OutlierGuardIsStrict ==
  (metrics.returned /\ metrics.valid /\ metrics.text = {}) =>
     (metrics.impressions < 1000000 /\ metrics.clicks < 1000000)

\* C25: in every row validateAndCleanRow returns, impressions, clicks and
\* cost are numbers, none is negative, and clicks do not exceed impressions.
C25_RecordIsWellFormed ==
  (metrics.returned /\ metrics.valid) =>
     /\ metrics.text \cap {"impressions", "clicks", "cost"} = {}
     /\ metrics.impressions >= 0 /\ metrics.clicks >= 0 /\ metrics.cost >= 0
     /\ metrics.clicks <= metrics.impressions

\* The records of data in which the metric is defined: set, and a number.
DefinedIn(name) ==
  {i \in DOMAIN data : data[i][name].present /\ data[i][name].den # 0}

\* The sum of the metric over a set of records of data, as a fraction.
RECURSIVE SumOver(_, _)
SumOver(name, I) ==
  IF I = {} THEN Zero
  ELSE LET i == CHOOSE j \in I : TRUE
       IN Plus([num |-> data[i][name].num, den |-> data[i][name].den],
               SumOver(name, I \ {i}))

\* average * (number of records with the metric) = sum over those records.
IsAverageOfDefined(average, name) ==
  LET I == DefinedIn(name)
      total == SumOver(name, I)
  IN I # {} =>
       average.num * Cardinality(I) * total.den = total.num * average.den

\* C21: each average of the summary is the sum of the metric over the
\* records that have it, divided by the number of those records.
C21_AveragesOverDefined ==
  summary.returned =>
     /\ IsAverageOfDefined(summary.averageCTR, "calculated_ctr")
     /\ IsAverageOfDefined(summary.averageCPC, "calculated_cpc")
     /\ IsAverageOfDefined(summary.averageROAS, "calculated_roas")
     /\ IsAverageOfDefined(summary.averageACOS, "calculated_acos")

C21_Witness ==
  /\ summary.returned /\ Len(data) = 2
  /\ DefinedIn("calculated_ctr") = {1}
  /\ summary.averageCTR.num * data[1].calculated_ctr.den
       = data[1].calculated_ctr.num * summary.averageCTR.den

\* C27: the answer for a completed job lists each optimization_tasks row of
\* the job once.
C27_EachTaskOnce ==
  (response # NoResponse /\ job.exists /\ job.status = "completed") =>
     response.optimizationTasks = Len(optimization_tasks)

====
